---- MODULE Spec2Model ----
(***************************************************************************)
(* Client-side authentication state machine of the Sanctum / Fortify       *)
(* two-factor module: the useSanctumAuth composable (identity cache,       *)
(* login / two-factor flow, recovery codes, logout, redirects) and the     *)
(* two-factor-only route middleware.                                        *)
(*                                                                          *)
(* Every `await` of the composable is a suspension point: an operation is   *)
(* a task whose pc is the stack of functions it is inside, and `at` says    *)
(* what the innermost one awaits (the HTTP client or navigateTo).  The     *)
(* backend, the router and the token storage are collaborators: a request  *)
(* is answered by any response the wire contract allows, or by an error.    *)
(***************************************************************************)
EXTENDS Naturals, Sequences, FiniteSets

VARIABLES cfg, user, isIdentityLoaded, tokenStorage, route, tasks

vars == <<cfg, user, isIdentityLoaded, tokenStorage, route, tasks>>

-----------------------------------------------------------------------------
(* Bounds of the model *)

\* number of distinct bearer tokens the login endpoints may answer with
NumTokens == 1
\* number of callers whose operations may overlap (SpecConcurrent)
MaxCallers == 2
\* in how many places a session differs from the default one when it starts
MaxDeviations == 2

-----------------------------------------------------------------------------
(* Values *)

\* JavaScript's undefined, for string-valued fields
UNDEFINED == "undefined"

\* an optional path: a redirect slot or an endpoint (string | false | undefined)
Undefined == [kind |-> "undefined", path |-> <<>>]
False == [kind |-> "false", path |-> <<>>]
Path(p) == [kind |-> "path", path |-> p]

\* a path is the sequence of its segments and separators: '/login/' is <<"/", "login", "/">>
Root == <<"/">>
Page(name) == <<"/", name>>
Slashed(p) == Append(p, "/")

\* '../utils/formatter' trimTrailingSlash: strips one trailing slash, keeps the root '/'
trimTrailingSlash(path) ==
    IF Len(path) > 1 /\ path[Len(path)] = "/" THEN SubSeq(path, 1, Len(path) - 1) ELSE path

\* user.value === null
Null == [null |-> TRUE]

\* BaseUser; the timestamps are present ("ts") or absent
User == [id : {"1"}, email_verified_at : {UNDEFINED, "ts"},
         two_factor_confirmed_at : {UNDEFINED, "ts"}]

\* bearer tokens: "t", "tt", ... as sequences of characters
Tokens == {[j \in 1..i |-> "t"] : i \in 1..NumTokens}

\* TokenResponse {token?, two_factor?}
TokenResponse == [token : {<<>>} \cup Tokens, two_factor : {UNDEFINED, "true", "false"}]

Passwords == {"secret"}

-----------------------------------------------------------------------------
(* Configuration *)

RedirectKeys == {"onLogin", "onLogout", "onAuthOnly", "onGuestOnly", "onTwoFactorOnly",
                 "onLoginWithTwoFactor", "onLoginWithConfigureTwoFactor",
                 "toRecoveryCodesOnConfirmingTwoFactor"}

EndpointKeys == {"login", "two_factor_qr_code", "two_factor_enable", "two_factor_confirm",
                 "two_factor_challenge", "two_factor_recovery_codes", "confirm_password",
                 "logout", "user"}

\* defaultModuleOptions.redirect
defaultRedirect ==
    [onLogin |-> Path(Root),
     onTwoFactorOnly |-> Path(Page("two-factor-qr-code")),
     onLogout |-> Path(Root),
     onAuthOnly |-> Path(Page("login")),
     onGuestOnly |-> Path(Root),
     onLoginWithTwoFactor |-> Path(Page("two-factor-challenge")),
     onLoginWithConfigureTwoFactor |-> Path(Page("two-factor-qr-code")),
     toRecoveryCodesOnConfirmingTwoFactor |-> Path(Page("two-factor-recovery-codes"))]

\* the playground's onLogin: a page that is no default target
playgroundRedirect == [onLogin |-> Path(Page("welcome"))]

\* defaultModuleOptions.endpoints
defaultEndpoints ==
    [login |-> Path(Page("login")),
     two_factor_qr_code |-> Path(<<"/", "user", "/", "two-factor-qr-code">>),
     two_factor_enable |-> Path(<<"/", "user", "/", "two-factor-authentication">>),
     two_factor_confirm |-> Path(<<"/", "user", "/", "confirmed-two-factor-authentication">>),
     two_factor_challenge |-> Path(Page("two-factor-challenge")),
     two_factor_recovery_codes |-> Path(<<"/", "user", "/", "two-factor-recovery-codes">>),
     confirm_password |-> Path(<<"/", "user", "/", "confirm-password">>),
     logout |-> Path(Page("logout")),
     user |-> Path(<<"/", "api", "/", "user">>)]

\* defaultModuleOptions, with the application's token storage (app.config.ts)
defaultModuleOptions ==
    [mode |-> "cookie",
     redirectIfAuthenticated |-> FALSE,
     redirectIfUnauthenticated |-> FALSE,
     enforce |-> FALSE,
     keepRequestedRoute |-> FALSE,
     endpoints |-> defaultEndpoints,
     redirect |-> defaultRedirect,
     tokenStorage |-> TRUE]

\* the values one redirect slot is given: unset, false, its default, the playground's
RedirectValues(k) ==
    {Undefined, False, defaultRedirect[k]}
        \cup (IF k \in DOMAIN playgroundRedirect THEN {playgroundRedirect[k]} ELSE {})

\* the default redirects with one slot overridden
RedirectConfigs ==
    UNION {{[defaultRedirect EXCEPT ![k] = v] : v \in RedirectValues(k)} : k \in RedirectKeys}

\* the default endpoints, or one of the checked endpoints left unset
EndpointConfigs ==
    {defaultEndpoints}
        \cup {[defaultEndpoints EXCEPT ![e] = Undefined] : e \in EndpointKeys \ {"user"}}

\* the module options of a session: every switch, one redirect slot overridden,
\* one endpoint unset, the token storage present or not
ModuleOptions ==
    [mode : {"cookie", "token"},
     redirectIfAuthenticated : BOOLEAN,
     redirectIfUnauthenticated : BOOLEAN,
     enforce : BOOLEAN,
     keepRequestedRoute : BOOLEAN,
     endpoints : EndpointConfigs,
     redirect : RedirectConfigs,
     tokenStorage : BOOLEAN]

\* in how many places a configuration differs from defaultModuleOptions
Deviations(c) ==
    Cardinality({k \in {"mode", "redirectIfAuthenticated", "redirectIfUnauthenticated",
                        "enforce", "keepRequestedRoute", "endpoints", "redirect",
                        "tokenStorage"} : c[k] # defaultModuleOptions[k]})

\* the pages of the application: the redirect targets, and two of them with a
\* trailing slash
Pages ==
    {v.path : v \in {w \in UNION {RedirectValues(k) : k \in RedirectKeys} : w.kind = "path"}}
        \cup {Slashed(Page("welcome")), Slashed(Page("two-factor-recovery-codes"))}

\* route.query.redirect: absent, or the requested path
Queries == {<<>>, Page("two-factor-recovery-codes")}

-----------------------------------------------------------------------------
(* Tasks: one operation of the composable in flight *)

\* what an operation did, in order
Send(method, endpoint, body) == [ev |-> "send", arg |-> <<method, endpoint, body>>]
Recv(request, status) == [ev |-> "recv", arg |-> <<request.arg[1], request.arg[2], status>>]
Nav(path) == [ev |-> "navigateTo", arg |-> path]
Store(token) == [ev |-> "tokenStorage.set", arg |-> token]

NoResponse == [token |-> <<>>, two_factor |-> UNDEFINED]

IdleTask ==
    [op |-> "none", pc |-> <<>>, at |-> "idle", result |-> "none", trace |-> <<>>,
     credentials |-> "", redirect |-> TRUE, response |-> NoResponse, fetched |-> Null,
     returned |-> "undefined", to |-> <<>>,
     before |-> [user |-> Null, loaded |-> FALSE, token |-> <<>>,
                 route |-> [path |-> Root, query |-> <<>>]]]

\* the operation of task t together with the session state it runs on
Frame(t) ==
    [user |-> user, loaded |-> isIdentityLoaded, token |-> tokenStorage, route |-> route,
     op |-> tasks[t].op, pc |-> tasks[t].pc, at |-> tasks[t].at, result |-> tasks[t].result,
     trace |-> tasks[t].trace, credentials |-> tasks[t].credentials,
     redirect |-> tasks[t].redirect, response |-> tasks[t].response,
     fetched |-> tasks[t].fetched, returned |-> tasks[t].returned, to |-> tasks[t].to,
     before |-> tasks[t].before]

\* a call of exported function op; `before` keeps the session state it was made in
Call(op) ==
    [user |-> user, loaded |-> isIdentityLoaded, token |-> tokenStorage, route |-> route,
     op |-> op, pc |-> <<>>, at |-> "run", result |-> "none", trace |-> <<>>,
     credentials |-> "", redirect |-> TRUE, response |-> NoResponse, fetched |-> Null,
     returned |-> "undefined", to |-> <<>>,
     before |-> [user |-> user, loaded |-> isIdentityLoaded, token |-> tokenStorage,
                 route |-> route]]

Top(f) == f.pc[Len(f.pc)]
Enter(f, fn) == [f EXCEPT !.pc = Append(@, fn), !.at = "run"]
Emit(f, e) == [f EXCEPT !.trace = Append(@, e)]

\* `throw new Error(...)`: nothing in the composable catches, the operation fails
Throw(f, error) == [f EXCEPT !.pc = <<>>, !.at = "done", !.result = error]

\* `await client(endpoint, {method, body})`: the request is sent, the function suspends
client(f, method, endpoint, body) ==
    [Emit(f, Send(method, endpoint, body)) EXCEPT !.at = "client"]

\* `navigateTo(path)`: the router moves to the path, which carries no query
navigateTo(f, path) ==
    [Emit(f, Nav(path)) EXCEPT !.route = [path |-> path, query |-> <<>>]]

\* `await nuxtApp.runWithContext(() => navigateTo(path))` with more code after it
awaitNavigateTo(f, path) == [navigateTo(f, path) EXCEPT !.at = "navigateTo"]

-----------------------------------------------------------------------------
(* useSanctumAuth: the computed flags *)

isAuthenticated(u) == u # Null

\* isVerified with a fault: a null identity counts as verified
isVerified_ref(u) == u = Null \/ u.email_verified_at # UNDEFINED

isVerified(u) == u # Null /\ u.email_verified_at # UNDEFINED

\* isAuthenticatedWithTwoFactor with a fault: it reads the other timestamp
isAuthenticatedWithTwoFactor_verified(u) == u # Null /\ u.email_verified_at # UNDEFINED

isAuthenticatedWithTwoFactor(u) == u # Null /\ u.two_factor_confirmed_at # UNDEFINED

currentPath(f) == trimTrailingSlash(f.route.path)

\* currentRoute.value.query.redirect, truthy
requestedRoute(f) == f.route.query

\* a JavaScript value used as a condition
Truthy(v) == v = "true"

-----------------------------------------------------------------------------
(* useSanctumAuth: the functions, each cut at its awaits.  f(...) is the    *)
(* code from the call to the first await; f_request the code after the     *)
(* guard's navigateTo; f_resolved the code after the response.  Return(f)   *)
(* is the normal return of the innermost function to its caller.            *)

RECURSIVE Return(_)

\* refreshIdentity, to the request on the user endpoint
refreshIdentity(f) == client(Enter(f, "refreshIdentity"), "get", "user", "")

\* refreshIdentity, from the response: user.value = await client(...)
refreshIdentity_resolved(f, identity) ==
    Return([f EXCEPT !.user = identity, !.fetched = identity])

\* init with a fault: the latch is not set before the fetch suspends
init_unlatched(f) ==
    LET f0 == Enter(f, "init")
    IN  IF f0.loaded THEN Return(f0) ELSE refreshIdentity(f0)

\* init
init(f) ==
    LET f0 == Enter(f, "init")
    IN  IF f0.loaded
        THEN Return(f0)
        ELSE refreshIdentity([f0 EXCEPT !.loaded = TRUE])

\* the guard every authenticated-only function opens with: what it decides
\* for an unauthenticated caller
unauthenticated(f) ==
    IF ~cfg.redirectIfUnauthenticated THEN "throw"
    ELSE IF cfg.redirect.onAuthOnly = False
            \/ cfg.redirect.onAuthOnly = Path(currentPath(f)) THEN "return"
    ELSE IF cfg.redirect.onAuthOnly = Undefined THEN "undefined"
    ELSE "navigateTo"

\* the guard login and twoFactorChallenge open with: what it decides for an
\* authenticated caller
authenticated(f) ==
    IF ~cfg.redirectIfAuthenticated THEN "throw"
    ELSE IF cfg.redirect.onLogin = False
            \/ cfg.redirect.onLogin = Path(currentPath(f)) THEN "return"
    ELSE IF cfg.redirect.onLogin = Undefined THEN "undefined"
    ELSE "navigateTo"

\* a function that checks its endpoint and sends one request
request(f, method, endpoint, body) ==
    IF cfg.endpoints[endpoint] = Undefined
    THEN Throw(f, "ConfigError")
    ELSE client(f, method, endpoint, body)

\* the authenticated-only functions that send one request and return its response
guarded(f, fn, method, endpoint, body, early) ==
    LET f0 == Enter(f, fn)
        g == unauthenticated(f0)
    IN  IF isAuthenticated(f0.user) THEN request(f0, method, endpoint, body)
        ELSE CASE g = "throw" -> Throw(f0, "AuthError")
               [] g = "return" -> Return([f0 EXCEPT !.returned = early])
               [] g = "undefined" -> Throw(f0, "ConfigError")
               [] OTHER -> awaitNavigateTo(f0, cfg.redirect.onAuthOnly.path)

enableTwoFactorAuthentication(f) ==
    guarded(f, "enableTwoFactorAuthentication", "post", "two_factor_enable", "", "undefined")

enableTwoFactorAuthentication_request(f) == request(f, "post", "two_factor_enable", "")

confirmPassword(f, credentials) ==
    guarded([f EXCEPT !.credentials = credentials], "confirmPassword", "post",
            "confirm_password", credentials, "undefined")

confirmPassword_request(f) == request(f, "post", "confirm_password", f.credentials)

twoFactorQrSvg(f) ==
    guarded(f, "twoFactorQrSvg", "get", "two_factor_qr_code", "", "undefined")

twoFactorQrSvg_request(f) == request(f, "get", "two_factor_qr_code", "")

\* getRecoveryCodes with a fault: it goes on to the request where it should return
getRecoveryCodes_through(f) ==
    LET f0 == Enter(f, "getRecoveryCodes")
        g == unauthenticated(f0)
    IN  IF isAuthenticated(f0.user) \/ g = "return"
        THEN request(f0, "get", "two_factor_recovery_codes", "")
        ELSE CASE g = "throw" -> Throw(f0, "AuthError")
               [] g = "undefined" -> Throw(f0, "ConfigError")
               [] OTHER -> awaitNavigateTo(f0, cfg.redirect.onAuthOnly.path)

getRecoveryCodes(f) ==
    guarded(f, "getRecoveryCodes", "get", "two_factor_recovery_codes", "", "[]")

getRecoveryCodes_request(f) == request(f, "get", "two_factor_recovery_codes", "")

regenerateRecoveryCodes(f) ==
    guarded(f, "regenerateRecoveryCodes", "post", "two_factor_recovery_codes", "", "[]")

regenerateRecoveryCodes_request(f) == request(f, "post", "two_factor_recovery_codes", "")

\* afterLogin with a fault: it redirects to onLogin before it fetches the identity
afterLogin_eager(f, response, redirect) ==
    LET f0 == [Enter(f, "afterLogin") EXCEPT !.redirect = redirect]
        to == cfg.redirect.onLogin
    IN  refreshIdentity(IF to.kind = "path" THEN navigateTo(f0, to.path) ELSE f0)

\* afterLogin with a fault: it stores response.token without testing it
afterLogin_unchecked(f, response, redirect) ==
    LET f0 == [Enter(f, "afterLogin") EXCEPT !.redirect = redirect]
    IN  IF cfg.mode = "token"
        THEN IF ~cfg.tokenStorage THEN Throw(f0, "ConfigError")
             ELSE refreshIdentity(
                    [Emit(f0, Store(response.token)) EXCEPT !.token = response.token])
        ELSE refreshIdentity(f0)

\* afterLogin, to the identity fetch
afterLogin(f, response, redirect) ==
    LET f0 == [Enter(f, "afterLogin") EXCEPT !.redirect = redirect]
    IN  IF cfg.mode = "token"
        THEN IF ~cfg.tokenStorage THEN Throw(f0, "ConfigError")
             ELSE IF response.token = <<>> THEN Throw(f0, "TokenMissingError")
             ELSE refreshIdentity(
                    [Emit(f0, Store(response.token)) EXCEPT !.token = response.token])
        ELSE refreshIdentity(f0)

\* afterLogin, from the identity fetch
afterLogin_resolved(f) ==
    IF cfg.keepRequestedRoute
       /\ requestedRoute(f) # <<>> /\ requestedRoute(f) # currentPath(f)
    THEN Return(navigateTo(f, requestedRoute(f)))
    ELSE IF f.redirect THEN Return(f)
    ELSE IF cfg.redirect.onLogin = False \/ Path(f.route.path) = cfg.redirect.onLogin
    THEN Return(f)
    ELSE IF cfg.redirect.onLogin = Undefined THEN Throw(f, "ConfigError")
    ELSE Return(navigateTo(f, cfg.redirect.onLogin.path))

\* handleTwoFactorAuthentication with a fault: it ignores two_factor and always
\* goes on to set two-factor up
handleTwoFactorAuthentication_refreshes(f, credentials, two_factor) ==
    refreshIdentity(Enter(f, "handleTwoFactorAuthentication"))

\* handleTwoFactorAuthentication with a fault: the redirect to the setup page
\* is issued before the requests
handleTwoFactorAuthentication_eager(f, credentials, two_factor) ==
    LET f0 == Enter(f, "handleTwoFactorAuthentication")
        to == IF two_factor THEN cfg.redirect.onLoginWithTwoFactor
              ELSE cfg.redirect.onLoginWithConfigureTwoFactor
        f1 == IF to.kind = "path" /\ to # Path(currentPath(f0))
              THEN navigateTo(f0, to.path) ELSE f0
    IN  IF two_factor THEN Return(f1) ELSE refreshIdentity(f1)

\* handleTwoFactorAuthentication, to the identity fetch or the challenge redirect
handleTwoFactorAuthentication(f, credentials, two_factor) ==
    LET f0 == Enter(f, "handleTwoFactorAuthentication")
        to == cfg.redirect.onLoginWithTwoFactor
    IN  IF two_factor
        THEN IF to = False \/ to = Path(currentPath(f0)) THEN Return(f0)
             ELSE IF to = Undefined THEN Throw(f0, "ConfigError")
             ELSE Return(navigateTo(f0, to.path))
        ELSE refreshIdentity(f0)

\* handleTwoFactorAuthentication, after enableTwoFactorAuthentication returned
handleTwoFactorAuthentication_redirect(f) ==
    LET to == cfg.redirect.onLoginWithConfigureTwoFactor
    IN  IF to = False \/ to = Path(currentPath(f)) THEN Return(f)
        ELSE IF to = Undefined THEN Throw(f, "ConfigError")
        ELSE Return(navigateTo(f, to.path))

\* login, from the POST on the login endpoint on
login_request(f) == request(f, "post", "login", f.credentials)

\* login, to the first await
login(f, credentials) ==
    LET f0 == [Enter(f, "login") EXCEPT !.credentials = credentials]
        g == authenticated(f0)
    IN  IF isAuthenticated(f0.user)
        THEN CASE g = "throw" -> Throw(f0, "AuthError")
               [] g = "return" -> Return(f0)
               [] g = "undefined" -> Throw(f0, "ConfigError")
               [] OTHER -> awaitNavigateTo(f0, cfg.redirect.onLogin.path)
        ELSE login_request(f0)

\* login with a fault: it caches an identity made from the login response
login_resolved_cached(f, response) ==
    LET f0 == [f EXCEPT !.user = [id |-> "1", email_verified_at |-> UNDEFINED,
                                  two_factor_confirmed_at |->
                                      IF Truthy(response.two_factor) THEN "ts"
                                      ELSE UNDEFINED]]
    IN  IF cfg.enforce
        THEN handleTwoFactorAuthentication(f0, f0.credentials, Truthy(response.two_factor))
        ELSE afterLogin(f0, response, TRUE)

\* login_resolved with a fault: everything but two_factor false is a challenge
login_resolved_defined(f, response) ==
    IF cfg.enforce
    THEN handleTwoFactorAuthentication(f, f.credentials, response.two_factor # "false")
    ELSE afterLogin(f, response, TRUE)

\* login, from the response of the login endpoint
login_resolved(f, response) ==
    IF cfg.enforce
    THEN handleTwoFactorAuthentication(f, f.credentials, Truthy(response.two_factor))
    ELSE afterLogin(f, response, TRUE)

twoFactorChallenge_request(f) == request(f, "post", "two_factor_challenge", f.credentials)

twoFactorChallenge(f, credentials) ==
    LET f0 == [Enter(f, "twoFactorChallenge") EXCEPT !.credentials = credentials]
        g == authenticated(f0)
    IN  IF isAuthenticated(f0.user)
        THEN CASE g = "throw" -> Throw(f0, "AuthError")
               [] g = "return" -> Return(f0)
               [] g = "undefined" -> Throw(f0, "ConfigError")
               [] OTHER -> awaitNavigateTo(f0, cfg.redirect.onLogin.path)
        ELSE twoFactorChallenge_request(f0)

\* twoFactorChallenge with a fault: it returns without calling afterLogin
twoFactorChallenge_resolved_unfetched(f, response) == Return(f)

twoFactorChallenge_resolved(f, response) == afterLogin(f, response, TRUE)

confirmTwoFactorAuthentication_request(f) ==
    request(f, "post", "two_factor_confirm", f.credentials)

confirmTwoFactorAuthentication(f, credentials) ==
    guarded([f EXCEPT !.credentials = credentials], "confirmTwoFactorAuthentication", "post",
            "two_factor_confirm", credentials, "undefined")

\* confirmTwoFactorAuthentication, from the response to the call of afterLogin
confirmTwoFactorAuthentication_resolved(f, response) ==
    LET to == cfg.redirect.toRecoveryCodesOnConfirmingTwoFactor
    IN  IF to = Undefined THEN Throw(f, "ConfigError")
        ELSE afterLogin(f, response, ~(to.kind = "path"))

\* confirmTwoFactorAuthentication, after afterLogin returned
confirmTwoFactorAuthentication_redirect(f) ==
    LET to == cfg.redirect.toRecoveryCodesOnConfirmingTwoFactor
    IN  IF to = False \/ Path(f.route.path) = to THEN Return(f)
        ELSE IF cfg.keepRequestedRoute
                /\ requestedRoute(f) # <<>> /\ requestedRoute(f) # currentPath(f)
        THEN Return(navigateTo(f, requestedRoute(f)))
        ELSE Return(navigateTo(f, to.path))

\* logout with a fault: it opens with the guard of the other authenticated-only
\* functions
logout_redirects(f) == guarded(f, "logout", "post", "logout", "", "undefined")

\* logout with a fault: the identity is cleared before the request is sent
logout_optimistic(f) ==
    LET f0 == Enter(f, "logout")
    IN  IF ~isAuthenticated(f0.user) THEN Throw(f0, "AuthError")
        ELSE request([f0 EXCEPT !.user = Null], "post", "logout", "")

\* logout, to the POST on the logout endpoint
logout(f) ==
    LET f0 == Enter(f, "logout")
    IN  IF ~isAuthenticated(f0.user) THEN Throw(f0, "AuthError")
        ELSE request(f0, "post", "logout", "")

\* logout with a fault: it resets the identity-loaded latch with the identity
logout_resolved_unlatched(f) ==
    LET f1 == [f EXCEPT !.user = Null, !.loaded = FALSE]
        f2 == IF cfg.mode = "token"
              THEN [Emit(f1, Store(<<>>)) EXCEPT !.token = <<>>]
              ELSE f1
    IN  IF cfg.mode = "token" /\ ~cfg.tokenStorage THEN Throw(f1, "ConfigError")
        ELSE IF cfg.redirect.onLogout = False
                \/ Path(currentPath(f2)) = cfg.redirect.onLogout THEN Return(f2)
        ELSE IF cfg.redirect.onLogout = Undefined THEN Throw(f2, "ConfigError")
        ELSE Return(navigateTo(f2, cfg.redirect.onLogout.path))

\* logout with a fault: the redirect comes before the token storage is cleared
logout_resolved_early(f) ==
    LET f1 == [f EXCEPT !.user = Null]
        clear(g) == IF cfg.mode = "token"
                    THEN [Emit(g, Store(<<>>)) EXCEPT !.token = <<>>]
                    ELSE g
    IN  IF cfg.mode = "token" /\ ~cfg.tokenStorage THEN Throw(f1, "ConfigError")
        ELSE IF cfg.redirect.onLogout = False
                \/ Path(currentPath(f1)) = cfg.redirect.onLogout THEN Return(f1)
        ELSE IF cfg.redirect.onLogout = Undefined THEN Throw(f1, "ConfigError")
        ELSE Return(clear(navigateTo(f1, cfg.redirect.onLogout.path)))

\* logout, from the response
logout_resolved(f) ==
    LET f1 == [f EXCEPT !.user = Null]
        f2 == IF cfg.mode = "token"
              THEN [Emit(f1, Store(<<>>)) EXCEPT !.token = <<>>]
              ELSE f1
    IN  IF cfg.mode = "token" /\ ~cfg.tokenStorage THEN Throw(f1, "ConfigError")
        ELSE IF cfg.redirect.onLogout = False
                \/ Path(currentPath(f2)) = cfg.redirect.onLogout THEN Return(f2)
        ELSE IF cfg.redirect.onLogout = Undefined THEN Throw(f2, "ConfigError")
        ELSE Return(navigateTo(f2, cfg.redirect.onLogout.path))

\* the innermost function returns: its caller goes on after the `await` of the call
Return(f) ==
    LET callee == Top(f)
        g == [f EXCEPT !.pc = SubSeq(@, 1, Len(@) - 1)]
        caller == IF g.pc = <<>> THEN "none" ELSE Top(g)
    IN  CASE caller = "none" -> [g EXCEPT !.at = "done", !.result = "ok"]
          [] caller = "afterLogin" -> afterLogin_resolved(g)
          [] caller = "handleTwoFactorAuthentication" /\ callee = "refreshIdentity" ->
                confirmPassword(g, g.credentials)
          [] caller = "handleTwoFactorAuthentication" /\ callee = "confirmPassword" ->
                enableTwoFactorAuthentication(g)
          [] caller = "handleTwoFactorAuthentication"
                /\ callee = "enableTwoFactorAuthentication" ->
                handleTwoFactorAuthentication_redirect(g)
          [] caller = "confirmTwoFactorAuthentication" ->
                confirmTwoFactorAuthentication_redirect(g)
          [] OTHER -> Return(g)

-----------------------------------------------------------------------------
(* The session: calls, responses, navigations, the route middleware *)

\* the caller of slot t has not called yet: a caller makes one call
Idle(t) == tasks[t].at = "idle"

TaskOf(f) ==
    [op |-> f.op, pc |-> f.pc, at |-> f.at, result |-> f.result, trace |-> f.trace,
     credentials |-> f.credentials, redirect |-> f.redirect, response |-> f.response,
     fetched |-> f.fetched, returned |-> f.returned, to |-> f.to,
     before |-> f.before]

\* the step of task t that leaves the operation and the session as in frame f
Commit(t, f) ==
    /\ user' = f.user
    /\ isIdentityLoaded' = f.loaded
    /\ tokenStorage' = f.token
    /\ route' = f.route
    /\ tasks' = [tasks EXCEPT ![t] = TaskOf(f)]
    /\ UNCHANGED cfg

LastSent(f) == f.trace[Len(f.trace)]

Answered(f, status) == Emit(f, Recv(LastSent(f), status))

Codes == {"123456"}

CallInit == \E t \in DOMAIN tasks : Idle(t) /\ Commit(t, init(Call("init")))

CallRefreshIdentity ==
    \E t \in DOMAIN tasks : Idle(t) /\ Commit(t, refreshIdentity(Call("refreshIdentity")))

CallLogin ==
    \E t \in DOMAIN tasks, p \in Passwords : Idle(t) /\ Commit(t, login(Call("login"), p))

CallTwoFactorChallenge ==
    \E t \in DOMAIN tasks, c \in Codes :
        Idle(t) /\ Commit(t, twoFactorChallenge(Call("twoFactorChallenge"), c))

CallConfirmTwoFactorAuthentication ==
    \E t \in DOMAIN tasks, c \in Codes :
        Idle(t) /\ Commit(t, confirmTwoFactorAuthentication(
                                Call("confirmTwoFactorAuthentication"), c))

CallEnableTwoFactorAuthentication ==
    \E t \in DOMAIN tasks :
        Idle(t) /\ Commit(t, enableTwoFactorAuthentication(
                                Call("enableTwoFactorAuthentication")))

CallConfirmPassword ==
    \E t \in DOMAIN tasks, p \in Passwords :
        Idle(t) /\ Commit(t, confirmPassword(Call("confirmPassword"), p))

CallTwoFactorQrSvg ==
    \E t \in DOMAIN tasks : Idle(t) /\ Commit(t, twoFactorQrSvg(Call("twoFactorQrSvg")))

CallGetRecoveryCodes ==
    \E t \in DOMAIN tasks : Idle(t) /\ Commit(t, getRecoveryCodes(Call("getRecoveryCodes")))

CallRegenerateRecoveryCodes ==
    \E t \in DOMAIN tasks :
        Idle(t) /\ Commit(t, regenerateRecoveryCodes(Call("regenerateRecoveryCodes")))

CallLogout == \E t \in DOMAIN tasks : Idle(t) /\ Commit(t, logout(Call("logout")))

\* the code after a guard's `await navigateTo(...)`: the function goes on to its request
afterNavigateTo(f) ==
    LET fn == Top(f)
    IN  CASE fn = "login" -> login_request(f)
          [] fn = "twoFactorChallenge" -> twoFactorChallenge_request(f)
          [] fn = "confirmTwoFactorAuthentication" -> confirmTwoFactorAuthentication_request(f)
          [] fn = "enableTwoFactorAuthentication" -> enableTwoFactorAuthentication_request(f)
          [] fn = "confirmPassword" -> confirmPassword_request(f)
          [] fn = "twoFactorQrSvg" -> twoFactorQrSvg_request(f)
          [] fn = "getRecoveryCodes" -> getRecoveryCodes_request(f)
          [] OTHER -> regenerateRecoveryCodes_request(f)

\* a navigateTo awaited by a guard resolves
NavigationResolves ==
    \E t \in DOMAIN tasks :
        /\ tasks[t].at = "navigateTo"
        /\ Commit(t, afterNavigateTo([Frame(t) EXCEPT !.at = "run"]))

Awaits(t, fns) == tasks[t].at = "client" /\ Top(tasks[t]) \in fns

\* the user endpoint answers with an identity
UserResponse ==
    \E t \in DOMAIN tasks, identity \in User :
        /\ Awaits(t, {"refreshIdentity"})
        /\ Commit(t, refreshIdentity_resolved(Answered(Frame(t), "ok"), identity))

\* the code after the response of login, two_factor_challenge or two_factor_confirm
tokenResponse(f, response) ==
    LET fn == Top(f)
        f0 == [f EXCEPT !.response = response]
    IN  CASE fn = "login" -> login_resolved(f0, response)
          [] fn = "twoFactorChallenge" -> twoFactorChallenge_resolved(f0, response)
          [] OTHER -> confirmTwoFactorAuthentication_resolved(f0, response)

\* login, two_factor_challenge or two_factor_confirm answers {token?, two_factor?}
TokenResponseArrives ==
    \E t \in DOMAIN tasks, response \in TokenResponse :
        /\ Awaits(t, {"login", "twoFactorChallenge", "confirmTwoFactorAuthentication"})
        /\ Commit(t, tokenResponse(Answered(Frame(t), "ok"), response))

\* PlainResponse with a fault: the response is written over the cached identity
PlainResponse_cached ==
    \E t \in DOMAIN tasks, u \in User :
        /\ Awaits(t, {"enableTwoFactorAuthentication", "confirmPassword", "twoFactorQrSvg",
                      "getRecoveryCodes", "regenerateRecoveryCodes"})
        /\ Commit(t, Return([Answered(Frame(t), "ok") EXCEPT
                                !.user = u,
                                !.returned = IF Top(tasks[t]) \in {"enableTwoFactorAuthentication",
                                                                  "confirmPassword"}
                                             THEN "undefined" ELSE "response"]))

\* the endpoint of a function that ends with its request answers: twoFactorQrSvg
\* and the recovery-code functions return the response, the other two nothing
PlainResponse ==
    \E t \in DOMAIN tasks :
        /\ Awaits(t, {"enableTwoFactorAuthentication", "confirmPassword", "twoFactorQrSvg",
                      "getRecoveryCodes", "regenerateRecoveryCodes"})
        /\ Commit(t, Return([Answered(Frame(t), "ok") EXCEPT
                                !.returned = IF Top(tasks[t]) \in {"enableTwoFactorAuthentication",
                                                                  "confirmPassword"}
                                             THEN "undefined" ELSE "response"]))

\* the logout endpoint answers
LogoutResponse ==
    \E t \in DOMAIN tasks :
        /\ Awaits(t, {"logout"})
        /\ Commit(t, logout_resolved(Answered(Frame(t), "ok")))

\* a failing request with a fault: a failure of a function called by
\* handleTwoFactorAuthentication is caught there, and it goes on
ErrorResponse_tolerant ==
    \E t \in DOMAIN tasks :
        /\ tasks[t].at = "client"
        /\ LET f == Answered(Frame(t), "error")
           IN  Commit(t, IF Len(f.pc) > 2 /\ f.pc[2] = "handleTwoFactorAuthentication"
                         THEN Return([f EXCEPT !.at = "run"])
                         ELSE Throw(f, "UpstreamError"))

\* a failing request with a fault: the first failure of a call is answered
\* by sending the request again
ErrorResponse_retried ==
    \E t \in DOMAIN tasks :
        /\ tasks[t].at = "client"
        /\ LET f == Answered(Frame(t), "error")
               again == \A i \in 1..Len(tasks[t].trace) : tasks[t].trace[i].ev # "recv"
                                                          \/ tasks[t].trace[i].arg[3] # "error"
           IN  Commit(t, IF again THEN Emit(f, LastSent(Frame(t)))
                         ELSE Throw(f, "UpstreamError"))

\* a failing request with a fault: the error is caught and the function returns
ErrorResponse_swallowed ==
    \E t \in DOMAIN tasks :
        /\ tasks[t].at = "client"
        /\ Commit(t, Return([Answered(Frame(t), "error") EXCEPT !.at = "run"]))

\* a failing request with a fault: the cached identity is dropped with it
ErrorResponse_clears ==
    \E t \in DOMAIN tasks :
        /\ tasks[t].at = "client"
        /\ Commit(t, Throw([Answered(Frame(t), "error") EXCEPT !.user = Null],
                           "UpstreamError"))

\* a request fails: client throws, and the operation with it
ErrorResponse ==
    \E t \in DOMAIN tasks :
        /\ tasks[t].at = "client"
        /\ Commit(t, Throw(Answered(Frame(t), "error"), "UpstreamError"))

\* a route change with a fault: the requests in flight are aborted with it
RouteChange_aborts ==
    \E t \in DOMAIN tasks, p \in Pages, q \in Queries :
        /\ Idle(t)
        /\ q # <<>> => cfg.keepRequestedRoute
        /\ user' = user /\ isIdentityLoaded' = isIdentityLoaded
        /\ tokenStorage' = tokenStorage
        /\ route' = [path |-> p, query |-> q]
        /\ tasks' = [u \in DOMAIN tasks |->
                        IF u = t
                        THEN TaskOf([Call("visit") EXCEPT !.route = [path |-> p, query |-> q],
                                                          !.at = "done", !.result = "ok"])
                        ELSE IF tasks[u].at = "client"
                        THEN [tasks[u] EXCEPT !.pc = <<>>, !.at = "done",
                                              !.result = "UpstreamError"]
                        ELSE tasks[u]]
        /\ UNCHANGED cfg

\* the visitor moves to a page that no middleware of the module guards
RouteChange ==
    \E t \in DOMAIN tasks, p \in Pages, q \in Queries :
        /\ Idle(t)
        /\ q # <<>> => cfg.keepRequestedRoute
        /\ Commit(t, [Call("visit") EXCEPT !.route = [path |-> p, query |-> q],
                                           !.at = "done", !.result = "ok"])

\* the pages that declare the two-factor-only middleware
TwoFactorOnlyPages ==
    {Page("two-factor-recovery-codes"), Slashed(Page("two-factor-recovery-codes")),
     Page("two-factor-qr-code")}

\* the two-factor-only middleware with a fault: false means "do nothing"
twoFactorOnly_lenient(f, to) ==
    LET f0 == Enter(f, "twoFactorOnly")
        endpoint == cfg.redirect.onTwoFactorOnly
    IN  IF isAuthenticatedWithTwoFactor(f0.user) \/ endpoint = False
        THEN Return([f0 EXCEPT !.route = [path |-> to, query |-> <<>>]])
        ELSE IF endpoint = Undefined THEN Throw(f0, "ConfigError")
        ELSE Return([Emit(f0, Nav(endpoint.path)) EXCEPT
                        !.returned = "navigateTo",
                        !.route = [path |-> endpoint.path, query |-> <<>>]])

\* the two-factor-only middleware with a fault: it tests isAuthenticated
twoFactorOnly_authenticated(f, to) ==
    LET f0 == Enter(f, "twoFactorOnly")
        endpoint == cfg.redirect.onTwoFactorOnly
    IN  IF isAuthenticated(f0.user)
        THEN Return([f0 EXCEPT !.route = [path |-> to, query |-> <<>>]])
        ELSE IF endpoint = Undefined THEN Throw(f0, "ConfigError")
        ELSE IF endpoint = False THEN Throw(f0, "Forbidden")
        ELSE Return([Emit(f0, Nav(endpoint.path)) EXCEPT
                        !.returned = "navigateTo",
                        !.route = [path |-> endpoint.path,
                                   query |-> IF cfg.keepRequestedRoute
                                             THEN trimTrailingSlash(to) ELSE <<>>]])

\* the two-factor-only middleware, for a navigation to `to`
twoFactorOnly(f, to) ==
    LET f0 == Enter(f, "twoFactorOnly")
        endpoint == cfg.redirect.onTwoFactorOnly
    IN  IF isAuthenticatedWithTwoFactor(f0.user)
        THEN Return([f0 EXCEPT !.route = [path |-> to, query |-> <<>>]])
        ELSE IF endpoint = Undefined THEN Throw(f0, "ConfigError")
        ELSE IF endpoint = False THEN Throw(f0, "Forbidden")
        ELSE Return([Emit(f0, Nav(endpoint.path)) EXCEPT
                        !.returned = "navigateTo",
                        !.route = [path |-> endpoint.path,
                                   query |-> IF cfg.keepRequestedRoute
                                             THEN trimTrailingSlash(to) ELSE <<>>]])

\* the visitor moves to a page guarded by the two-factor-only middleware
TwoFactorOnlyMiddleware ==
    \E t \in DOMAIN tasks, to \in TwoFactorOnlyPages :
        Idle(t) /\ Commit(t, twoFactorOnly([Call("twoFactorOnly") EXCEPT !.to = to], to))

\* the page a session starts on by default
LoginRoute == [path |-> Page("login"), query |-> <<>>]

\* in how many places the state a session starts in differs from the default
\* one: default options, nobody signed in, nothing loaded or stored, on the
\* login page.  A requested route in the query comes with keepRequestedRoute.
Differences(c, u, loaded, token, r) ==
    Deviations(c) + (IF u = Null THEN 0 ELSE 1) + (IF loaded THEN 1 ELSE 0)
        + (IF token = <<>> THEN 0 ELSE 1) + (IF r.path = LoginRoute.path THEN 0 ELSE 1)

\* the states the composable is constructed in: the identity and the latch are
\* useState values (hydrated from the payload), the token storage persists
InitSession(callers, deviations) ==
    /\ cfg \in {c \in ModuleOptions : Deviations(c) <= deviations}
    /\ user \in {Null} \cup User
    /\ isIdentityLoaded \in BOOLEAN
    /\ tokenStorage \in {<<>>} \cup Tokens
    /\ route \in [path : Pages, query : Queries]
    /\ route.query # <<>> => cfg.keepRequestedRoute
    /\ Differences(cfg, user, isIdentityLoaded, tokenStorage, route) <= deviations
    /\ tasks = [t \in 1..callers |-> IdleTask]

\* one caller: no operation runs in parallel with another
Init == InitSession(1, MaxDeviations)

Next ==
    \/ CallInit
    \/ CallRefreshIdentity
    \/ CallLogin
    \/ CallTwoFactorChallenge
    \/ CallConfirmTwoFactorAuthentication
    \/ CallEnableTwoFactorAuthentication
    \/ CallConfirmPassword
    \/ CallTwoFactorQrSvg
    \/ CallGetRecoveryCodes
    \/ CallRegenerateRecoveryCodes
    \/ CallLogout
    \/ NavigationResolves
    \/ UserResponse
    \/ TokenResponseArrives
    \/ PlainResponse
    \/ LogoutResponse
    \/ ErrorResponse
    \/ RouteChange
    \/ TwoFactorOnlyMiddleware

Spec == Init /\ [][Next]_vars

\* MaxCallers callers, whose operations interleave at their awaits
InitConcurrent == InitSession(MaxCallers, 1)

SpecConcurrent == InitConcurrent /\ [][Next]_vars

\* MaxCallers callers that load the identity only: init, refreshIdentity
NextIdentity ==
    \/ CallInit
    \/ CallRefreshIdentity
    \/ UserResponse
    \/ ErrorResponse

SpecIdentity == InitConcurrent /\ [][NextIdentity]_vars

\* MaxCallers callers that load the identity or sign out
NextSignOut ==
    \/ CallInit
    \/ CallRefreshIdentity
    \/ CallLogout
    \/ UserResponse
    \/ LogoutResponse
    \/ ErrorResponse

SpecSignOut == InitConcurrent /\ [][NextSignOut]_vars

\* MaxCallers callers that sign in: login, twoFactorChallenge, and the visitor
\* moving between pages meanwhile
NextLoginFlow ==
    \/ CallLogin
    \/ CallTwoFactorChallenge
    \/ RouteChange
    \/ NavigationResolves
    \/ TokenResponseArrives
    \/ UserResponse
    \/ PlainResponse
    \/ ErrorResponse

SpecLoginFlow == InitConcurrent /\ [][NextLoginFlow]_vars

\* the pages whose path ends with a slash
SlashedPages == {p \in Pages : trimTrailingSlash(p) # p}

\* a session that starts on a page with a trailing slash, with MaxDeviations
\* further differences from the default session
InitTrailingSlash == InitSession(1, MaxDeviations + 1) /\ route.path \in SlashedPages

SpecTrailingSlash == InitTrailingSlash /\ [][Next]_vars

-----------------------------------------------------------------------------
(* What an operation did, read from its task *)

Events(k) == {k.trace[i] : i \in 1..Len(k.trace)}

Navigations(k) == {e \in Events(k) : e.ev = "navigateTo"}

Sent(k, endpoint) == \E e \in Events(k) : e.ev = "send" /\ e.arg[2] = endpoint

Received(method, endpoint, body) == Recv(Send(method, endpoint, body), "ok")

Finished(k) == k.at = "done" /\ k.result = "ok"

\* the position in the trace of k of the successful response of endpoint, 0 if none
ResponseAt(k, endpoint) ==
    LET at == {i \in 1..Len(k.trace) : /\ k.trace[i].ev = "recv"
                                        /\ k.trace[i].arg[2] = endpoint
                                        /\ k.trace[i].arg[3] = "ok"}
    IN  IF at = {} THEN 0 ELSE CHOOSE i \in at : TRUE

\* the path the visitor is on before event i of k, when no other caller navigates
PathAt(k, i) ==
    LET navs == {j \in 1..(i - 1) : k.trace[j].ev = "navigateTo"}
    IN  IF k.op = "twoFactorOnly" THEN k.to
        ELSE IF navs = {} THEN k.before.route.path
        ELSE k.trace[CHOOSE j \in navs : \A m \in navs : m <= j].arg

-----------------------------------------------------------------------------
(* Properties *)

\* C1: in token mode without enforced two-factor, an unauthenticated login()
\* whose response carries a token, with onLogin a path other than the current
\* one and no requested route in the query, ends with the token stored, the
\* identity fetched and a navigation to the onLogin path.
C1_TokenLoginEndsOnOnLogin ==
    \A t \in DOMAIN tasks :
        LET k == tasks[t]
        IN  (/\ k.op = "login" /\ Finished(k)
             /\ cfg.mode = "token" /\ ~cfg.enforce
             /\ k.before.user = Null
             /\ k.response.token # <<>>
             /\ cfg.redirect.onLogin.kind = "path"
             /\ cfg.redirect.onLogin.path # trimTrailingSlash(k.before.route.path)
             /\ k.before.route.query = <<>>)
            => /\ Store(k.response.token) \in Events(k)
               /\ Received("get", "user", "") \in Events(k)
               /\ Nav(cfg.redirect.onLogin.path) \in Events(k)

\* the operations that run afterLogin on the response of their endpoint
AfterLoginEndpoint(k) ==
    CASE k.op = "login" /\ ~cfg.enforce -> "login"
      [] k.op = "twoFactorChallenge" -> "two_factor_challenge"
      [] k.op = "confirmTwoFactorAuthentication"
            /\ cfg.redirect.toRecoveryCodesOnConfirmingTwoFactor # Undefined ->
            "two_factor_confirm"
      [] OTHER -> "none"

\* C2: wherever afterLogin runs (login, twoFactorChallenge,
\* confirmTwoFactorAuthentication), every navigation it or its caller makes
\* afterwards comes after the completed identity fetch, whatever the response
\* body was; once the operation has returned, the fetch has happened and the
\* cached identity is the fetched one.
C2_IdentityFetchedBeforeRedirect ==
    \A t \in DOMAIN tasks :
        LET k == tasks[t]
            i == ResponseAt(k, AfterLoginEndpoint(k))
            fetched(a, b) == \E m \in a..b : k.trace[m] = Received("get", "user", "")
        IN  i > 0 =>
                /\ \A j \in (i + 1)..Len(k.trace) :
                        k.trace[j].ev = "navigateTo" => fetched(i + 1, j - 1)
                /\ Finished(k) => fetched(i + 1, Len(k.trace)) /\ user = k.fetched

\* C2 happens: a confirmation whose afterLogin fetched another identity than
\* the cached one and then navigated
C2_Witness ==
    \E t \in DOMAIN tasks :
        LET k == tasks[t]
        IN  /\ k.op = "confirmTwoFactorAuthentication" /\ Finished(k)
            /\ k.fetched # k.before.user /\ user = k.fetched
            /\ Navigations(k) # {}

\* the path the visitor is on when the response of the login endpoint arrives
PathAtLoginResponse(k) == trimTrailingSlash(PathAt(k, ResponseAt(k, "login")))

\* C3: with enforce on and a login response with two_factor true, login()
\* fetches no identity and sends no confirmPassword or
\* enableTwoFactorAuthentication request, leaves the cached identity as it
\* was, and navigates to onLoginWithTwoFactor when that is a path other than
\* the current one.
C3_ChallengeRedirectWithoutRefresh ==
    \A t \in DOMAIN tasks :
        LET k == tasks[t]
            to == cfg.redirect.onLoginWithTwoFactor
        IN  (/\ k.op = "login" /\ cfg.enforce
             /\ ResponseAt(k, "login") > 0 /\ k.response.two_factor = "true")
            => /\ k.at = "done"
               /\ ~Sent(k, "user") /\ ~Sent(k, "confirm_password")
               /\ ~Sent(k, "two_factor_enable")
               /\ k.fetched = Null /\ user = k.before.user
               /\ (to.kind = "path" /\ to.path # PathAtLoginResponse(k))
                    => /\ Finished(k)
                       /\ k.trace[Len(k.trace)] = Nav(to.path)
                       /\ route.path = to.path

\* C3 happens: an unauthenticated login was answered two_factor true and went
\* to the challenge page
C3_Witness ==
    \E t \in DOMAIN tasks :
        LET k == tasks[t]
        IN  /\ k.op = "login" /\ cfg.enforce /\ Finished(k)
            /\ k.response.two_factor = "true" /\ user = Null
            /\ Nav(cfg.redirect.onLoginWithTwoFactor.path) \in Events(k)

\* what login does after a response without two_factor, enforce being on
ConfigureSteps(k) ==
    LET to == cfg.redirect.onLoginWithConfigureTwoFactor
    IN  <<Send("get", "user", ""), Received("get", "user", ""),
          Send("post", "confirm_password", k.credentials),
          Received("post", "confirm_password", k.credentials),
          Send("post", "two_factor_enable", ""), Received("post", "two_factor_enable", "")>>
            \o (IF to.kind = "path" /\ to.path # PathAtLoginResponse(k)
                THEN <<Nav(to.path)>> ELSE <<>>)

\* C4: with enforce on and a login response whose two_factor is not true,
\* login() does, in this order and each after the one before has completed:
\* the identity fetch, the confirmPassword request with the password it was
\* called with, the enableTwoFactorAuthentication request, the navigation to
\* onLoginWithConfigureTwoFactor.  A failed step ends the operation.
C4_ConfigureStepsInOrder ==
    \A t \in DOMAIN tasks :
        LET k == tasks[t]
            i == ResponseAt(k, "login")
            did == SubSeq(k.trace, i + 1, Len(k.trace))
            steps == ConfigureSteps(k)
            failed(j) == /\ j = Len(did) /\ k.at = "done" /\ steps[j].ev = "recv"
                         /\ did[j] = [steps[j] EXCEPT !.arg[3] = "error"]
        IN  (k.op = "login" /\ cfg.enforce /\ i > 0 /\ k.response.two_factor # "true")
            => /\ Len(did) <= Len(steps)
               /\ \A j \in 1..Len(did) : did[j] = steps[j] \/ failed(j)
               /\ Finished(k) => did = steps

\* C4 happens: a login went through the three requests and to the setup page
C4_Witness ==
    \E t \in DOMAIN tasks :
        LET k == tasks[t]
        IN  /\ k.op = "login" /\ cfg.enforce /\ Finished(k)
            /\ k.response.two_factor # "true"
            /\ Len(k.trace) = 9
            /\ k.trace[9] = Nav(cfg.redirect.onLoginWithConfigureTwoFactor.path)

InitTasks == {t \in DOMAIN tasks : tasks[t].op = "init"}

Fetching == {t \in InitTasks : Sent(tasks[t], "user")}

\* C5: however many init() calls overlap, one identity fetch is sent: the
\* latch is set when the first caller suspends on its fetch, every other
\* caller finds it set and returns without fetching.
C5_OneIdentityFetch ==
    /\ Cardinality(Fetching) <= 1
    /\ InitTasks # {} => isIdentityLoaded
    /\ (\E t \in InitTasks : ~tasks[t].before.loaded) => Cardinality(Fetching) = 1
    /\ \A t \in InitTasks \ Fetching : tasks[t].before.loaded /\ tasks[t].trace = <<>>

\* C5 happens: a second init() returned while the first still awaits its fetch
C5_Witness ==
    \E t, u \in InitTasks :
        /\ tasks[t].at = "client" /\ ~tasks[t].before.loaded
        /\ Finished(tasks[u]) /\ tasks[u].trace = <<>>

\* C6: logout() called while the cached identity is null fails with an
\* authentication error, sends no request, navigates nowhere and leaves the
\* identity, the token storage and the route as they were, in every
\* configuration.
C6_LogoutUnauthenticatedFails ==
    \A t \in DOMAIN tasks :
        LET k == tasks[t]
        IN  (k.op = "logout" /\ k.before.user = Null)
            => /\ k.at = "done" /\ k.result = "AuthError"
               /\ k.trace = <<>>
               /\ user = Null
               /\ tokenStorage = k.before.token
               /\ route = k.before.route

\* C6 happens: a logout() without identity, redirectIfUnauthenticated being on
\* and a token being stored
C6_Witness ==
    \E t \in DOMAIN tasks :
        /\ tasks[t].op = "logout" /\ tasks[t].before.user = Null
        /\ tasks[t].result = "AuthError"
        /\ cfg.redirectIfUnauthenticated /\ tokenStorage # <<>>

\* the two-factor-only guard, asked for its own target, does not navigate
C7_Guard ==
    \A t \in DOMAIN tasks :
        LET k == tasks[t]
        IN  (k.op = "twoFactorOnly"
                /\ cfg.redirect.onTwoFactorOnly = Path(trimTrailingSlash(k.to)))
            => Navigations(k) = {}

\* no operation navigates to the path the visitor is on
C7_Operations ==
    \A t \in DOMAIN tasks :
        LET k == tasks[t]
        IN  k.op # "twoFactorOnly" =>
                \A i \in 1..Len(k.trace) :
                    k.trace[i].ev = "navigateTo"
                        => k.trace[i].arg # trimTrailingSlash(PathAt(k, i))

\* afterLogin, run by login() on the onLogin page, does not navigate
C7_AfterLogin ==
    \A t \in DOMAIN tasks :
        LET k == tasks[t]
        IN  (/\ k.op = "login" /\ ~cfg.enforce /\ k.before.user = Null
             /\ cfg.redirect.onLogin = Path(trimTrailingSlash(k.before.route.path)))
            => Navigations(k) = {}

\* C7: for each redirect key, when the key's target is the current path (for
\* a route guard, the path navigated to), resolving the key navigates nowhere.
C7_SamePathNoNavigation == C7_Guard /\ C7_Operations /\ C7_AfterLogin

\* C8: the two-factor-only guard with onTwoFactorOnly false, asked by a
\* visitor it does not let through, answers Forbidden (403) and navigates
\* nowhere.
C8_GuardForbidden ==
    \A t \in DOMAIN tasks :
        LET k == tasks[t]
        IN  (/\ k.op = "twoFactorOnly" /\ cfg.redirect.onTwoFactorOnly = False
             /\ ~isAuthenticatedWithTwoFactor(k.before.user))
            => /\ k.at = "done" /\ k.result = "Forbidden"
               /\ k.trace = <<>>
               /\ route = k.before.route

\* C8 happens: the guard refused a signed-in visitor without two-factor
C8_Witness ==
    \E t \in DOMAIN tasks :
        /\ tasks[t].op = "twoFactorOnly" /\ tasks[t].result = "Forbidden"
        /\ cfg.redirect.onTwoFactorOnly = False
        /\ isAuthenticated(user) /\ ~isAuthenticatedWithTwoFactor(user)

\* the step of task t is the arrival of the successful response of endpoint
Arrives(t, method, endpoint) ==
    LET n == Len(tasks[t].trace) + 1
    IN  /\ tasks[t].at = "client"
        /\ Len(tasks'[t].trace) >= n
        /\ tasks'[t].trace[n] = [ev |-> "recv", arg |-> <<method, endpoint, "ok">>]

\* C10: the cached identity changes in two ways only: the response of a
\* successful GET on the user endpoint replaces it as a whole, a successful
\* logout sets it to null.  No other response writes it.
C10_IdentityWrittenByFetchOrLogout ==
    [][user' # user =>
        \E t \in DOMAIN tasks :
            \/ Arrives(t, "get", "user") /\ user' \in User /\ user' = tasks'[t].fetched
            \/ Arrives(t, "post", "logout") /\ user' = Null]_vars

\* C10 happens: a login replaced a cached identity by the fetched one
C10_Witness ==
    \E t \in DOMAIN tasks :
        LET k == tasks[t]
        IN  /\ k.op \in {"twoFactorChallenge", "login"} /\ Finished(k)
            /\ k.before.user # Null /\ user # k.before.user /\ user = k.fetched

\* C11: in every state the flags are functions of the cached identity alone:
\* isAuthenticated iff the identity is not null, isVerified iff it is not
\* null and has its email-verified timestamp, isAuthenticatedWithTwoFactor
\* iff it is not null and has its two-factor-confirmed timestamp; the last
\* two never hold without the first.
C11_FlagsFollowIdentity ==
    /\ isAuthenticated(user) <=> user \in User
    /\ isVerified(user) <=> (user \in User /\ user.email_verified_at = "ts")
    /\ isAuthenticatedWithTwoFactor(user)
            <=> (user \in User /\ user.two_factor_confirmed_at = "ts")
    /\ ~isAuthenticated(user) => ~isVerified(user) /\ ~isAuthenticatedWithTwoFactor(user)
    /\ user \in {Null} \cup User

\* C11 happens: a fetch replaced a null identity by one with confirmed
\* two-factor and an unverified email
C11_Witness ==
    \E t \in DOMAIN tasks :
        /\ tasks[t].op = "refreshIdentity" /\ Finished(tasks[t])
        /\ tasks[t].before.user = Null /\ user = tasks[t].fetched
        /\ isAuthenticatedWithTwoFactor(user) /\ ~isVerified(user)

GuardedOperations ==
    {"enableTwoFactorAuthentication", "confirmPassword", "twoFactorQrSvg",
     "confirmTwoFactorAuthentication", "getRecoveryCodes", "regenerateRecoveryCodes"}

\* C12: a guarded operation (enableTwoFactorAuthentication, confirmPassword,
\* twoFactorQrSvg, confirmTwoFactorAuthentication, getRecoveryCodes,
\* regenerateRecoveryCodes) called while the cached identity is null sends
\* no request: it fails with an authentication error when
\* redirectIfUnauthenticated is off, and otherwise resolves onAuthOnly and
\* returns.
C12_GuardedSendsNothing ==
    \A t \in DOMAIN tasks :
        LET k == tasks[t]
        IN  (k.op \in GuardedOperations /\ k.before.user = Null)
            => /\ \A e \in Events(k) : e.ev # "send"
               /\ ~cfg.redirectIfUnauthenticated
                    => k.at = "done" /\ k.result = "AuthError" /\ k.trace = <<>>

\* C13: login() called while the cached identity is not null fails with an
\* authentication error when redirectIfAuthenticated is off and otherwise
\* resolves onLogin and returns; it sends no POST to the login endpoint and
\* leaves the cached identity as it was.
C13_AuthenticatedLoginSendsNothing ==
    \A t \in DOMAIN tasks :
        LET k == tasks[t]
        IN  (k.op = "login" /\ k.before.user \in User)
            => /\ ~Sent(k, "login")
               /\ user = k.before.user
               /\ ~cfg.redirectIfAuthenticated
                    => k.at = "done" /\ k.result = "AuthError" /\ k.trace = <<>>

\* twoFactorChallenge() called while authenticated sends no POST to the
\* two_factor_challenge endpoint
C14_NoPost ==
    \A t \in DOMAIN tasks :
        LET k == tasks[t]
        IN  (k.op = "twoFactorChallenge" /\ k.before.user \in User)
            => ~Sent(k, "two_factor_challenge")

\* twoFactorChallenge() called while authenticated does not fail with an
\* authentication error, redirectIfAuthenticated on or off
C14_NoError ==
    \A t \in DOMAIN tasks :
        LET k == tasks[t]
        IN  (k.op = "twoFactorChallenge" /\ k.before.user \in User)
            => k.result # "AuthError"

\* C14: twoFactorChallenge() called while the cached identity is not null
\* resolves onLogin and stops: no POST to the two_factor_challenge endpoint
\* and no authentication error, for every value of redirectIfAuthenticated.
C14_AuthenticatedChallengeStops == C14_NoPost /\ C14_NoError

\* the positions of the navigations in the trace of k
NavigationsAt(k) == {i \in 1..Len(k.trace) : k.trace[i].ev = "navigateTo"}

\* confirmTwoFactorAuthentication() by an authenticated user navigates at most once
C15_AtMostOneNavigation ==
    \A t \in DOMAIN tasks :
        LET k == tasks[t]
        IN  (k.op = "confirmTwoFactorAuthentication" /\ k.before.user \in User)
            => Cardinality(NavigationsAt(k)) <= 1

\* confirmTwoFactorAuthentication() by an authenticated user navigates only
\* after the identity was fetched, and only to the target of
\* toRecoveryCodesOnConfirmingTwoFactor or to the requested route
C15_NeverOnLogin ==
    \A t \in DOMAIN tasks :
        LET k == tasks[t]
        IN  (k.op = "confirmTwoFactorAuthentication" /\ k.before.user \in User)
            => \A i \in NavigationsAt(k) :
                /\ ResponseAt(k, "user") \in 1..(i - 1)
                /\ \/ Path(k.trace[i].arg) = cfg.redirect.toRecoveryCodesOnConfirmingTwoFactor
                   \/ k.trace[i].arg = k.before.route.query

\* C15: confirmTwoFactorAuthentication() by an authenticated user posts to
\* two_factor_confirm, runs afterLogin without its redirect (the identity is
\* fetched, nothing navigates to onLogin or to the requested route) and only
\* then resolves toRecoveryCodesOnConfirmingTwoFactor: at most one
\* navigation, and none to onLogin.
C15_ConfirmNavigatesOnceToRecoveryCodes == C15_AtMostOneNavigation /\ C15_NeverOnLogin

\* the endpoint whose response an operation hands to afterLogin, "" if none
LoginEndpoint(op) ==
    CASE op = "login" -> "login"
      [] op = "twoFactorChallenge" -> "two_factor_challenge"
      [] op = "confirmTwoFactorAuthentication" -> "two_factor_confirm"
      [] OTHER -> ""

\* k called afterLogin with the response of its endpoint
CalledAfterLogin(k) ==
    /\ LoginEndpoint(k.op) # "" /\ ResponseAt(k, LoginEndpoint(k.op)) > 0
    /\ k.op = "login" => ~cfg.enforce
    /\ k.op = "confirmTwoFactorAuthentication"
            => cfg.redirect.toRecoveryCodesOnConfirmingTwoFactor # Undefined

\* C16: in token mode with a token storage, when the response of login,
\* two_factor_challenge or two_factor_confirm carries no token, afterLogin
\* fails with the missing-token error: nothing is written to the token
\* storage, no GET goes to the user endpoint, the cached identity stays as
\* it was and nothing navigates after the response.
C16_TokenMissingStopsAttempt ==
    \A t \in DOMAIN tasks :
        LET k == tasks[t]
        IN  (/\ cfg.mode = "token" /\ cfg.tokenStorage
             /\ CalledAfterLogin(k) /\ k.response.token = <<>>)
            => /\ k.at = "done" /\ k.result = "TokenMissingError"
               /\ Len(k.trace) = ResponseAt(k, LoginEndpoint(k.op))
               /\ \A e \in Events(k) : e.ev # "tokenStorage.set"
               /\ ~Sent(k, "user")
               /\ user = k.before.user
               /\ tokenStorage = k.before.token

\* C16 happens: a login in token mode was answered without a token while a
\* token was stored
C16_Witness ==
    \E t \in DOMAIN tasks :
        /\ tasks[t].op = "login" /\ tasks[t].result = "TokenMissingError"
        /\ tasks[t].before.token \in Tokens /\ tokenStorage = tasks[t].before.token

\* the user endpoint answered the last request of k with an error
UserFetchFailed(k) ==
    /\ k.at = "done" /\ k.result = "UpstreamError"
    /\ k.trace[Len(k.trace)] = Recv(Send("get", "user", ""), "error")

\* C17: when the GET on the user endpoint succeeds the cached identity is
\* the fetched one, whatever it was before; when it fails the error ends
\* the operation and the cached identity is the one from before the call.
C17_RefreshReplacesOrKeeps ==
    \A t \in DOMAIN tasks :
        LET k == tasks[t]
        IN  /\ ResponseAt(k, "user") > 0 => k.fetched \in User /\ user = k.fetched
            /\ (k.result = "UpstreamError" /\ k.op \in {"refreshIdentity", "init"})
                    => UserFetchFailed(k)
            /\ (k.at = "done" /\ UserFetchFailed(k))
                    => ResponseAt(k, "user") = 0 /\ user = k.before.user

\* C17 happens: a refreshIdentity() with a cached identity failed
C17_Witness ==
    \E t \in DOMAIN tasks :
        /\ tasks[t].op = "refreshIdentity" /\ UserFetchFailed(tasks[t])
        /\ tasks[t].before.user \in User /\ user = tasks[t].before.user

\* a refreshIdentity() replaced a cached identity by another one
C17_Replaced ==
    \E t \in DOMAIN tasks :
        /\ tasks[t].op = "refreshIdentity" /\ Finished(tasks[t])
        /\ tasks[t].before.user \in User /\ user # tasks[t].before.user

\* what a successful logout() started on path p does, in order
LogoutSteps(p) ==
    <<Send("post", "logout", ""), Received("post", "logout", "")>>
        \o (IF cfg.mode = "token" THEN <<Store(<<>>)>> ELSE <<>>)
        \o (IF cfg.redirect.onLogout \notin {False, Undefined, Path(trimTrailingSlash(p))}
            THEN <<Nav(cfg.redirect.onLogout.path)>> ELSE <<>>)

\* C18: a logout() by an authenticated user changes nothing until the POST
\* on the logout endpoint is answered; then the cached identity is null,
\* and a logout() that returns has done, in this order: the POST, in token
\* mode the clearing of the token storage, the navigation onLogout asks
\* for; the identity is then null and in token mode the token storage empty.
C18_LogoutOrder ==
    \A t \in DOMAIN tasks :
        LET k == tasks[t]
        IN  (k.op = "logout" /\ k.before.user \in User)
            => /\ k.at = "client"
                    => /\ k.trace = <<Send("post", "logout", "")>>
                       /\ user = k.before.user /\ tokenStorage = k.before.token
                       /\ route = k.before.route
               /\ ResponseAt(k, "logout") > 0 => ResponseAt(k, "logout") = 2 /\ user = Null
               /\ Finished(k)
                    => /\ k.trace = LogoutSteps(k.before.route.path)
                       /\ user = Null
                       /\ cfg.mode = "token" => tokenStorage = <<>>

\* C18 happens: a logout() in token mode returned after a navigation
C18_Witness ==
    \E t \in DOMAIN tasks :
        /\ tasks[t].op = "logout" /\ Finished(tasks[t])
        /\ cfg.mode = "token" /\ Len(tasks[t].trace) = 4

\* k failed on an unset redirect key before any navigation
ConfigErrorWithoutNavigation(k) ==
    k.at = "done" /\ k.result = "ConfigError" /\ NavigationsAt(k) = {}

\* the guards: an unset onTwoFactorOnly, onAuthOnly or (for an authenticated
\* login) onLogin fails the guarded call
C19_Guards ==
    \A t \in DOMAIN tasks :
        LET k == tasks[t]
        IN  /\ (/\ k.op = "twoFactorOnly" /\ ~isAuthenticatedWithTwoFactor(k.before.user)
                /\ cfg.redirect.onTwoFactorOnly = Undefined)
                    => ConfigErrorWithoutNavigation(k)
            /\ (/\ k.op \in GuardedOperations /\ k.before.user = Null
                /\ cfg.redirectIfUnauthenticated /\ cfg.redirect.onAuthOnly = Undefined)
                    => ConfigErrorWithoutNavigation(k)
            /\ (/\ k.op \in {"login", "twoFactorChallenge"} /\ k.before.user \in User
                /\ cfg.redirectIfAuthenticated /\ cfg.redirect.onLogin = Undefined)
                    => ConfigErrorWithoutNavigation(k)

\* logout: an unset onLogout fails the call once the POST is answered
C19_Logout ==
    \A t \in DOMAIN tasks :
        LET k == tasks[t]
        IN  (/\ k.op = "logout" /\ ResponseAt(k, "logout") > 0
             /\ cfg.redirect.onLogout = Undefined)
                => ConfigErrorWithoutNavigation(k)

\* login() and twoFactorChallenge() by an unauthenticated caller: an unset
\* onLogin fails the call once the identity is fetched
C19_AfterLogin ==
    \A t \in DOMAIN tasks :
        LET k == tasks[t]
        IN  (/\ k.op \in {"login", "twoFactorChallenge"} /\ k.before.user = Null
             /\ CalledAfterLogin(k) /\ ResponseAt(k, "user") > 0
             /\ cfg.redirect.onLogin = Undefined)
                => ConfigErrorWithoutNavigation(k)

\* C19: an operation that comes to resolve a redirect key that is unset
\* fails with a configuration error and navigates nowhere; this holds for
\* every key, onLogin after a successful login() or twoFactorChallenge()
\* included.
C19_UnsetKeyFails == C19_Guards /\ C19_Logout /\ C19_AfterLogin

\* login() with enforce off, or twoFactorChallenge(), by an unauthenticated
\* caller with onLogin false: it returns without a navigation
C20_OnLogin ==
    \A t \in DOMAIN tasks :
        LET k == tasks[t]
        IN  (/\ k.op \in {"login", "twoFactorChallenge"} /\ k.before.user = Null
             /\ CalledAfterLogin(k) /\ ResponseAt(k, "user") > 0
             /\ cfg.redirect.onLogin = False)
                => Finished(k) /\ NavigationsAt(k) = {}

\* confirmTwoFactorAuthentication() by an authenticated caller with
\* toRecoveryCodesOnConfirmingTwoFactor false: it returns without a navigation
C20_ToRecoveryCodes ==
    \A t \in DOMAIN tasks :
        LET k == tasks[t]
        IN  (/\ k.op = "confirmTwoFactorAuthentication" /\ k.before.user \in User
             /\ ResponseAt(k, "user") > 0
             /\ cfg.redirect.toRecoveryCodesOnConfirmingTwoFactor = False)
                => Finished(k) /\ NavigationsAt(k) = {}

\* logout() with onLogout false: it returns without a navigation
C20_OnLogout ==
    \A t \in DOMAIN tasks :
        LET k == tasks[t]
        IN  (/\ k.op = "logout" /\ ResponseAt(k, "logout") > 0
             /\ cfg.redirect.onLogout = False
             /\ cfg.mode = "token" => cfg.tokenStorage)
                => Finished(k) /\ NavigationsAt(k) = {}

\* login() with enforce on and onLoginWithTwoFactor false, answered with
\* two_factor true: it returns without a navigation
C20_OnLoginWithTwoFactor ==
    \A t \in DOMAIN tasks :
        LET k == tasks[t]
        IN  (/\ k.op = "login" /\ k.before.user = Null /\ cfg.enforce
             /\ ResponseAt(k, "login") > 0 /\ Truthy(k.response.two_factor)
             /\ cfg.redirect.onLoginWithTwoFactor = False)
                => Finished(k) /\ NavigationsAt(k) = {}

\* C20: with an action-completion key (onLogin, onLogout,
\* onLoginWithTwoFactor, onLoginWithConfigureTwoFactor,
\* toRecoveryCodesOnConfirmingTwoFactor) set to false, the operation that
\* resolves it completes without an error and without any navigation, also
\* with keepRequestedRoute on and a requested route in the query.
C20_FalseKeyNavigatesNowhere ==
    C20_OnLogin /\ C20_ToRecoveryCodes /\ C20_OnLogout /\ C20_OnLoginWithTwoFactor

\* C21: a guarded operation called while the cached identity is null, with
\* redirectIfUnauthenticated on and onAuthOnly false, ends as forbidden
\* (403) and not with a silent successful return.
C21_GuardFalseIsForbidden ==
    \A t \in DOMAIN tasks :
        LET k == tasks[t]
        IN  (/\ k.op \in GuardedOperations /\ k.before.user = Null
             /\ cfg.redirectIfUnauthenticated /\ cfg.redirect.onAuthOnly = False)
                => k.at = "done" /\ k.result = "Forbidden"

\* the targets of the navigations of k, in order
NavigationTargets(k) ==
    LET nav == SelectSeq(k.trace, LAMBDA e : e.ev = "navigateTo")
    IN  [i \in 1..Len(nav) |-> nav[i].arg]

\* k is a login() (enforce off) or twoFactorChallenge() by an
\* unauthenticated caller whose identity fetch succeeded, with onLogin a
\* path other than the path the call started on
LoggedInAwayFromOnLogin(k) ==
    /\ k.op \in {"login", "twoFactorChallenge"} /\ k.before.user = Null
    /\ CalledAfterLogin(k) /\ ResponseAt(k, "user") > 0
    /\ cfg.redirect.onLogin \notin {False, Undefined}
    /\ cfg.redirect.onLogin.path
            \notin {k.before.route.path, trimTrailingSlash(k.before.route.path)}

\* the query of the route k started on asks for a path other than the current one
RequestedElsewhere(k) ==
    /\ cfg.keepRequestedRoute
    /\ k.before.route.query # <<>>
    /\ k.before.route.query # trimTrailingSlash(k.before.route.path)

\* with a requested route the one navigation goes there
C22_ToRequestedRoute ==
    \A t \in DOMAIN tasks :
        LET k == tasks[t]
        IN  (LoggedInAwayFromOnLogin(k) /\ RequestedElsewhere(k))
            => Finished(k) /\ NavigationTargets(k) = <<k.before.route.query>>

\* without one the one navigation goes to onLogin
C22_ToOnLogin ==
    \A t \in DOMAIN tasks :
        LET k == tasks[t]
        IN  (LoggedInAwayFromOnLogin(k) /\ ~RequestedElsewhere(k))
            => Finished(k) /\ NavigationTargets(k) = <<cfg.redirect.onLogin.path>>

\* C22: after a successful login() or twoFactorChallenge() with onLogin a
\* path other than the current one, there is one navigation: to the
\* requested path when keepRequestedRoute is on and the query has a path
\* other than the current one, to onLogin otherwise.
C22_OneNavigationAfterLogin == C22_ToRequestedRoute /\ C22_ToOnLogin

\* k started on the page of the path `to` written with a trailing slash
StartedOnSlashed(k, to) ==
    /\ to \notin {False, Undefined}
    /\ k.before.route.path = Slashed(to.path)

\* afterLogin: on the onLogin page written with a trailing slash, an
\* operation whose afterLogin resolves onLogin does not navigate to onLogin
C23_AfterLogin ==
    \A t \in DOMAIN tasks :
        LET k == tasks[t]
        IN  (/\ CalledAfterLogin(k) /\ ResponseAt(k, "user") > 0
             /\ k.before.user = Null <=> k.op # "confirmTwoFactorAuthentication"
             /\ ~RequestedElsewhere(k)
             /\ StartedOnSlashed(k, cfg.redirect.onLogin))
                => /\ k.result # "ConfigError"
                   /\ Nav(cfg.redirect.onLogin.path) \notin Events(k)

\* confirmTwoFactorAuthentication: on the recovery-codes page written with
\* a trailing slash, with no redirect of afterLogin, it navigates nowhere
C23_Confirm ==
    \A t \in DOMAIN tasks :
        LET k == tasks[t]
        IN  (/\ k.op = "confirmTwoFactorAuthentication" /\ k.before.user \in User
             /\ ResponseAt(k, "user") > 0
             /\ ~RequestedElsewhere(k)
             /\ cfg.redirect.onLogin = False
             /\ StartedOnSlashed(k, cfg.redirect.toRecoveryCodesOnConfirmingTwoFactor))
                => Finished(k) /\ NavigationsAt(k) = {}

\* logout: on the onLogout page written with a trailing slash it navigates nowhere
C23_Logout ==
    \A t \in DOMAIN tasks :
        LET k == tasks[t]
        IN  (/\ k.op = "logout" /\ Finished(k)
             /\ StartedOnSlashed(k, cfg.redirect.onLogout))
                => NavigationsAt(k) = {}

\* C23: every same-path test compares the configured target with the
\* current path without its trailing slash: on the page of the target
\* written with a trailing slash nothing navigates, in afterLogin
\* (onLogin), confirmTwoFactorAuthentication
\* (toRecoveryCodesOnConfirmingTwoFactor) and logout (onLogout) alike.
C23_SamePathIsNormalized == C23_AfterLogin /\ C23_Confirm /\ C23_Logout

\* k is the two-factor-only guard asked by a signed-in visitor without
\* confirmed two-factor, with onTwoFactorOnly a path
GuardRedirects(k) ==
    /\ k.op = "twoFactorOnly"
    /\ k.before.user \in User /\ k.before.user.two_factor_confirmed_at = UNDEFINED
    /\ cfg.redirect.onTwoFactorOnly \notin {False, Undefined}

\* C24: the two-factor-only guard, asked by a signed-in visitor whose
\* identity has no two-factor-confirmed timestamp, with onTwoFactorOnly a
\* path, answers with a redirect to that path in place of the navigation;
\* with keepRequestedRoute the query carries the requested path without
\* its trailing slash, and otherwise there is no query.
C24_GuardRedirectsToOnTwoFactorOnly ==
    \A t \in DOMAIN tasks :
        LET k == tasks[t]
        IN  GuardRedirects(k)
            => /\ Finished(k) /\ k.returned = "navigateTo"
               /\ k.trace = <<Nav(cfg.redirect.onTwoFactorOnly.path)>>
               /\ route = [path |-> cfg.redirect.onTwoFactorOnly.path,
                           query |-> IF cfg.keepRequestedRoute
                                     THEN trimTrailingSlash(k.to) ELSE <<>>]

\* C24 as worded: with keepRequestedRoute the query carries the requested
\* full path
C24_QueryIsFullPath ==
    \A t \in DOMAIN tasks :
        LET k == tasks[t]
        IN  (GuardRedirects(k) /\ cfg.keepRequestedRoute) => route.query = k.to

\* C24 happens: the guard redirected a navigation to a path with a trailing
\* slash, with keepRequestedRoute on
C24_Witness ==
    \E t \in DOMAIN tasks :
        /\ GuardRedirects(tasks[t]) /\ cfg.keepRequestedRoute
        /\ tasks[t].to \in SlashedPages
        /\ route.path = cfg.redirect.onTwoFactorOnly.path /\ route.query # <<>>

\* the positions in the trace of k of the responses that are errors
FailuresAt(k) == {i \in 1..Len(k.trace) : k.trace[i].ev = "recv" /\ k.trace[i].arg[3] = "error"}

\* C25: when the POST of login, twoFactorChallenge or
\* confirmTwoFactorAuthentication fails, the operation ends with that error
\* and has done nothing else: no token written, no GET on the user
\* endpoint, the cached identity and the stored token as before, no
\* navigation after the request was sent.  And no operation returns
\* normally once one of its requests has failed: the failure is its last
\* event.
C25_FailurePropagates ==
    \A t \in DOMAIN tasks :
        LET k == tasks[t]
        IN  /\ \A i \in FailuresAt(k) :
                    i = Len(k.trace) /\ k.at = "done" /\ k.result = "UpstreamError"
            /\ \A i \in FailuresAt(k) :
                    (LoginEndpoint(k.op) # "" /\ k.trace[i].arg[2] = LoginEndpoint(k.op))
                        => /\ k.trace[i - 1].ev = "send"
                           /\ \A e \in Events(k) : e.ev # "tokenStorage.set"
                           /\ ~Sent(k, "user")
                           /\ user = k.before.user
                           /\ tokenStorage = k.before.token
            /\ k.result = "UpstreamError" => FailuresAt(k) # {}

\* C25 happens: the POST of a twoFactorChallenge() failed in token mode
C25_Witness ==
    \E t \in DOMAIN tasks :
        /\ tasks[t].op = "twoFactorChallenge" /\ tasks[t].result = "UpstreamError"
        /\ cfg.mode = "token" /\ ~Sent(tasks[t], "user")

\* C26: a login() that awaits a response is not aborted by a route change:
\* a step of another caller leaves it as it is, and its own next step is
\* the arrival of its response, after which it goes on: the successful
\* login response (enforce off, cookie mode) is followed by the GET on the
\* user endpoint, and the successful response of that GET is cached as the
\* identity.
C26_LoginSurvivesNavigation ==
    [][\A t \in DOMAIN tasks :
            (tasks[t].op = "login" /\ tasks[t].at = "client")
            => LET n == Len(tasks[t].trace)
               IN  /\ \/ tasks'[t] = tasks[t]
                      \/ /\ Len(tasks'[t].trace) > n
                         /\ tasks'[t].trace[n + 1].ev = "recv"
                   /\ (Arrives(t, "post", "login") /\ ~cfg.enforce /\ cfg.mode = "cookie")
                        => /\ tasks'[t].at = "client"
                           /\ tasks'[t].trace[n + 2] = Send("get", "user", "")
                   /\ Arrives(t, "get", "user")
                        => user' \in User /\ user' = tasks'[t].fetched]_vars

\* C26 happens: the visitor moved to another page after a login() was
\* called and before its identity fetch was answered, and the login has
\* returned with the fetched identity cached
C26_Witness ==
    \E t, v \in DOMAIN tasks :
        /\ tasks[t].op = "login" /\ Finished(tasks[t]) /\ Navigations(tasks[t]) = {}
        /\ tasks[v].op = "visit"
        /\ tasks[v].before.route = tasks[t].before.route /\ route # tasks[t].before.route
        /\ tasks[v].before.user = Null /\ tasks[t].before.user = Null
        /\ user \in User /\ user = tasks[t].fetched

\* task t is a login() by an unauthenticated caller with enforce on that was
\* answered with two_factor true, task c a twoFactorChallenge() by an
\* unauthenticated caller
EnforcedLoginThenChallenge(t, c) ==
    /\ cfg.enforce
    /\ tasks[t].op = "login" /\ tasks[t].before.user = Null
    /\ ResponseAt(tasks[t], "login") > 0 /\ Truthy(tasks[t].response.two_factor)
    /\ tasks[c].op \in {"none", "twoFactorChallenge"} /\ tasks[c].before.user = Null

\* C27: with enforce on, after a login() by an unauthenticated caller was
\* answered with two_factor true, the cached identity is null until the
\* identity fetch of a twoFactorChallenge() is answered: the login fetches
\* nothing, and the challenge, once its fetch succeeded, returns with the
\* fetched identity cached.
C27_EnforcedSequence ==
    \A t, c \in DOMAIN tasks :
        EnforcedLoginThenChallenge(t, c)
        => /\ ~Sent(tasks[t], "user")
           /\ user = Null <=> ResponseAt(tasks[c], "user") = 0
           /\ Finished(tasks[c]) <=> ResponseAt(tasks[c], "user") > 0
           /\ Finished(tasks[c]) => user \in User /\ user = tasks[c].fetched

\* C27 happens: the login navigated to onLoginWithTwoFactor, the challenge
\* was called from there and has returned with an identity
C27_Witness ==
    \E t, c \in DOMAIN tasks :
        /\ EnforcedLoginThenChallenge(t, c) /\ Finished(tasks[c])
        /\ cfg.redirect.onLoginWithTwoFactor \notin {False, Undefined}
        /\ Nav(cfg.redirect.onLoginWithTwoFactor.path) \in Events(tasks[t])
        /\ tasks[c].before.route.path = cfg.redirect.onLoginWithTwoFactor.path
        /\ tasks[c].before.route # tasks[t].before.route
        /\ user \in User

\* the positions in the trace of k of the requests
RequestsAt(k) == {i \in 1..Len(k.trace) : k.trace[i].ev = "send"}

\* C28: one call of an operation sends at most one request per endpoint
\* (login with enforce off: at most one POST login and one GET user;
\* logout: at most one POST logout), and sends nothing after a request of
\* it failed.
C28_NoRetry ==
    \A t \in DOMAIN tasks :
        LET k == tasks[t]
        IN  /\ \A i, j \in RequestsAt(k) :
                    k.trace[i].arg[2] = k.trace[j].arg[2] => i = j
            /\ \A i \in FailuresAt(k), j \in RequestsAt(k) : j < i
            /\ (k.op = "login" /\ ~cfg.enforce)
                    => {k.trace[i].arg[2] : i \in RequestsAt(k)} \subseteq {"login", "user"}
            /\ k.op = "logout"
                    => {k.trace[i].arg[2] : i \in RequestsAt(k)} \subseteq {"logout"}

\* C28 happens: a login() with enforce on has sent its four requests, and
\* the last one failed
C28_Witness ==
    \E t \in DOMAIN tasks :
        /\ tasks[t].op = "login" /\ tasks[t].result = "UpstreamError"
        /\ Cardinality(RequestsAt(tasks[t])) = 4

\* C29: once a logout() has returned, the cached identity is null and stays
\* null whatever an identity fetch does that was started (by init or
\* refreshIdentity) while the identity was still cached: its response
\* cannot bring an identity back.
C29_LogoutIsFinal ==
    \A l, t \in DOMAIN tasks :
        (/\ tasks[l].op = "logout" /\ Finished(tasks[l])
         /\ tasks[t].op \in {"init", "refreshIdentity"}
         /\ tasks[t].before.user \in User)
            => user = Null

\* the login() of k wrote the token of its response to the token storage
\* before it sent the GET on the user endpoint
TokenPersistedBeforeFetch(k) ==
    \E i, j \in 1..Len(k.trace) :
        /\ i < j
        /\ k.response.token \in Tokens /\ k.trace[i] = Store(k.response.token)
        /\ k.trace[j] = Send("get", "user", "")

\* token mode, enforce off
C30_AfterLogin ==
    \A t \in DOMAIN tasks :
        LET k == tasks[t]
        IN  (/\ cfg.mode = "token" /\ ~cfg.enforce
             /\ k.op = "login" /\ k.before.user = Null /\ ResponseAt(k, "user") > 0)
                => TokenPersistedBeforeFetch(k)

\* token mode, enforce on
C30_Enforced ==
    \A t \in DOMAIN tasks :
        LET k == tasks[t]
        IN  (/\ cfg.mode = "token" /\ cfg.enforce
             /\ k.op = "login" /\ k.before.user = Null /\ ResponseAt(k, "user") > 0)
                => TokenPersistedBeforeFetch(k)

\* C30: in token mode a login() whose identity fetch succeeded has written
\* the token of the login response to the token storage before that fetch,
\* with enforce off and with enforce on.
C30_TokenPersistedBeforeIdentity == C30_AfterLogin /\ C30_Enforced

\* k has done nothing: no request, identity and token storage as at the call
NoSideEffect(k) ==
    /\ RequestsAt(k) = {}
    /\ user = k.before.user
    /\ tokenStorage = k.before.token

\* logout() with onLogout unset
C31_Logout ==
    \A t \in DOMAIN tasks :
        LET k == tasks[t]
        IN  (/\ k.op = "logout" /\ k.result = "ConfigError"
             /\ cfg.redirect.onLogout = Undefined) => NoSideEffect(k)

\* confirmTwoFactorAuthentication() with toRecoveryCodesOnConfirmingTwoFactor unset
C31_Confirm ==
    \A t \in DOMAIN tasks :
        LET k == tasks[t]
        IN  (/\ k.op = "confirmTwoFactorAuthentication" /\ k.result = "ConfigError"
             /\ cfg.redirect.toRecoveryCodesOnConfirmingTwoFactor = Undefined)
                => NoSideEffect(k)

\* login() with enforce on and onLoginWithTwoFactor unset
C31_EnforcedLogin ==
    \A t \in DOMAIN tasks :
        LET k == tasks[t]
        IN  (/\ k.op = "login" /\ k.result = "ConfigError" /\ cfg.enforce
             /\ cfg.redirect.onLoginWithTwoFactor = Undefined) => NoSideEffect(k)

\* C31: an operation that fails with a configuration error (a redirect
\* target, an endpoint or the token storage is unset) has sent no request
\* and has changed neither the cached identity nor the token storage.
C31_ConfigErrorBeforeSideEffects ==
    /\ \A t \in DOMAIN tasks : tasks[t].result = "ConfigError" => NoSideEffect(tasks[t])
    /\ C31_Logout /\ C31_Confirm /\ C31_EnforcedLogin

\* k is a login() by an unauthenticated caller with enforce on whose
\* response had no true two_factor, and one of the requests that followed
\* failed at endpoint
ConfigureFailedAt(k, endpoint) ==
    /\ k.op = "login" /\ k.before.user = Null /\ cfg.enforce
    /\ ResponseAt(k, "login") > 0 /\ ~Truthy(k.response.two_factor)
    /\ FailuresAt(k) # {}
    /\ k.trace[Len(k.trace)].arg[2] = endpoint

\* C32: with enforce on and a login response without a true two_factor, the
\* steps of login() stop at the first failure: after a failed identity
\* fetch neither confirmPassword nor enableTwoFactorAuthentication is
\* requested, after a failed confirmPassword enableTwoFactorAuthentication
\* is not requested; after any of the three failures the error ends the
\* login, nothing navigates, and an identity that was fetched stays cached.
C32_ConfigureStepsFailStop ==
    \A t \in DOMAIN tasks :
        LET k == tasks[t]
        IN  /\ ConfigureFailedAt(k, "user")
                => /\ ~Sent(k, "confirm_password") /\ ~Sent(k, "two_factor_enable")
                   /\ user = Null
            /\ ConfigureFailedAt(k, "confirm_password")
                => /\ ~Sent(k, "two_factor_enable")
                   /\ user \in User /\ user = k.fetched
            /\ ConfigureFailedAt(k, "two_factor_enable")
                => user \in User /\ user = k.fetched
            /\ \A e \in {"user", "confirm_password", "two_factor_enable"} :
                    ConfigureFailedAt(k, e)
                        => /\ k.at = "done" /\ k.result = "UpstreamError"
                           /\ NavigationsAt(k) = {}
                           /\ route = k.before.route

\* C32 happens: the confirmPassword request of an enforced login failed
\* after the identity was fetched
C32_Witness ==
    \E t \in DOMAIN tasks :
        /\ ConfigureFailedAt(tasks[t], "confirm_password")
        /\ user \in User /\ tasks[t].result = "UpstreamError"

\* C33: the identity-loaded latch is never reset: it is true once init() has
\* been called, and an operation called with the latch true leaves it
\* true, whatever the operation and its outcome.  So an init() called with
\* the latch true returns without a request, also when the fetch of the
\* earlier init() failed, and of all the init() calls of a session that
\* starts with the latch false one sends a GET on the user endpoint.
C33_LatchIsMonotonic ==
    /\ \A t \in DOMAIN tasks :
            LET k == tasks[t]
            IN  /\ (k.op = "init" \/ (k.op # "none" /\ k.before.loaded)) => isIdentityLoaded
                /\ (k.op = "init" /\ k.before.loaded) => Finished(k) /\ k.trace = <<>>
                /\ (k.op = "init" /\ ~k.before.loaded)
                        => Cardinality(RequestsAt(k)) = 1 /\ Sent(k, "user")
    /\ Cardinality({t \in DOMAIN tasks : tasks[t].op = "init" /\ Sent(tasks[t], "user")}) <= 1

\* C33 happens: the fetch of an init() failed, and a later init() returned
\* without a request
C33_Witness ==
    \E a, b \in DOMAIN tasks :
        /\ tasks[a].op = "init" /\ ~tasks[a].before.loaded
        /\ tasks[a].result = "UpstreamError"
        /\ tasks[b].op = "init" /\ tasks[b].before.loaded
        /\ Finished(tasks[b]) /\ tasks[b].trace = <<>>

\* the identity is non-null and carries a two-factor-confirmed timestamp
TwoFactorConfirmed(u) == u \in User /\ u.two_factor_confirmed_at = "ts"

\* the guard let the navigation of k proceed unchanged
Proceeds(k) ==
    /\ k.at = "done" /\ k.result = "ok" /\ k.returned = "undefined"
    /\ k.trace = <<>>
    /\ route = [path |-> k.to, query |-> <<>>]

\* C34: the two-factor-only guard lets a navigation proceed unchanged only
\* for a cached identity that is non-null and carries a
\* two-factor-confirmed timestamp, and it does so for every such identity.
\* For a null identity and for one without the timestamp, verified or not,
\* the navigation is redirected to onTwoFactorOnly, refused with 403, or
\* fails with a configuration error, the route staying where it was in the
\* last two cases.
C34_GuardPassesOnlyTwoFactor ==
    \A t \in DOMAIN tasks :
        LET k == tasks[t]
        IN  k.op = "twoFactorOnly"
            => /\ user = k.before.user
               /\ Proceeds(k) <=> TwoFactorConfirmed(k.before.user)
               /\ ~TwoFactorConfirmed(k.before.user)
                    => \/ /\ k.result = "ok" /\ k.returned = "navigateTo"
                          /\ cfg.redirect.onTwoFactorOnly \notin {False, Undefined}
                          /\ NavigationTargets(k) = <<cfg.redirect.onTwoFactorOnly.path>>
                          /\ route.path = cfg.redirect.onTwoFactorOnly.path
                       \/ /\ k.result = "Forbidden" /\ cfg.redirect.onTwoFactorOnly = False
                          /\ k.trace = <<>> /\ route = k.before.route
                       \/ /\ k.result = "ConfigError" /\ cfg.redirect.onTwoFactorOnly = Undefined
                          /\ k.trace = <<>> /\ route = k.before.route

\* C34 happens: the guard stopped a visitor whose email is verified but whose
\* two-factor is not confirmed
C34_Witness ==
    \E t \in DOMAIN tasks :
        /\ tasks[t].op = "twoFactorOnly" /\ tasks[t].at = "done"
        /\ tasks[t].before.user \in User
        /\ tasks[t].before.user.email_verified_at = "ts"
        /\ tasks[t].before.user.two_factor_confirmed_at = UNDEFINED
        /\ ~Proceeds(tasks[t])

\* C35: when the POST on the logout endpoint fails, logout() ends with that
\* error and the session is as it was: the cached identity is the one
\* logout() was called with, non-null, the token storage has not been
\* written, nothing was sent after the failed request, there was no
\* navigation and the route is unchanged.
C35_FailedLogoutKeepsSession ==
    \A t \in DOMAIN tasks :
        LET k == tasks[t]
        IN  (k.op = "logout" /\ FailuresAt(k) # {})
            => /\ k.at = "done" /\ k.result = "UpstreamError"
               /\ k.trace = <<Send("post", "logout", ""),
                              Recv(Send("post", "logout", ""), "error")>>
               /\ user = k.before.user /\ user \in User
               /\ tokenStorage = k.before.token
               /\ isIdentityLoaded = k.before.loaded
               /\ route = k.before.route

\* C35 happens: the POST of a logout() in token mode failed
C35_Witness ==
    \E t \in DOMAIN tasks :
        /\ tasks[t].op = "logout" /\ FailuresAt(tasks[t]) # {}
        /\ tasks[t].result = "UpstreamError"
        /\ cfg.mode = "token" /\ cfg.tokenStorage

PlainOperations ==
    {"enableTwoFactorAuthentication", "confirmPassword", "twoFactorQrSvg",
     "getRecoveryCodes", "regenerateRecoveryCodes"}

IdentityOperations ==
    {"login", "twoFactorChallenge", "confirmTwoFactorAuthentication",
     "refreshIdentity", "init", "logout"}

\* C36: enableTwoFactorAuthentication, confirmPassword, twoFactorQrSvg,
\* getRecoveryCodes and regenerateRecoveryCodes leave the cached identity,
\* the identity-loaded latch and the token storage as they were at the
\* call, at every step and in every outcome, and never write the token
\* storage; a call after which the cached identity differs is a login,
\* twoFactorChallenge, confirmTwoFactorAuthentication, refreshIdentity,
\* init or logout.
C36_PlainOperationsKeepIdentity ==
    \A t \in DOMAIN tasks :
        LET k == tasks[t]
        IN  /\ k.op \in PlainOperations
                => /\ user = k.before.user
                   /\ isIdentityLoaded = k.before.loaded
                   /\ tokenStorage = k.before.token
                   /\ \A e \in Events(k) : e.ev # "tokenStorage.set"
            /\ (k.op # "none" /\ user # k.before.user) => k.op \in IdentityOperations

\* C36 happens: a getRecoveryCodes() by a signed-in user returned the
\* response of its endpoint
C36_Witness ==
    \E t \in DOMAIN tasks :
        /\ tasks[t].op = "getRecoveryCodes" /\ Finished(tasks[t])
        /\ tasks[t].returned = "response"
        /\ user \in User

\* k was called without identity, redirectIfUnauthenticated being on and
\* onAuthOnly being false or the current path
NothingToRedirectTo(k) ==
    /\ k.before.user = Null /\ cfg.redirectIfUnauthenticated
    /\ \/ cfg.redirect.onAuthOnly = False
       \/ cfg.redirect.onAuthOnly = Path(trimTrailingSlash(k.before.route.path))

EnforcedLoginWithoutField(k) ==
    /\ k.op = "login" /\ cfg.enforce
    /\ ResponseAt(k, "login") > 0
    /\ k.response.two_factor = UNDEFINED

\* C38: with enforce on, a login response without the two_factor field
\* takes login() into the configure branch, as two_factor false does: the
\* request that follows the response is the identity fetch, the only
\* navigation after the response is the one to
\* onLoginWithConfigureTwoFactor, after the three requests have succeeded,
\* and a login() that finishes has done the configure steps, all of them
\* and nothing else, and the fetched identity is the cached one.  There is
\* no challenge redirect.
C38_MissingFieldConfigures ==
    \A t \in DOMAIN tasks :
        LET k == tasks[t]
            i == ResponseAt(k, "login")
            did == SubSeq(k.trace, i + 1, Len(k.trace))
        IN  EnforcedLoginWithoutField(k)
            => /\ Len(did) >= 1 /\ did[1] = Send("get", "user", "")
               /\ \A j \in 1..Len(did) :
                    did[j].ev = "navigateTo"
                        => /\ j = 7
                           /\ did[6] = Received("post", "two_factor_enable", "")
                           /\ did[j] = Nav(cfg.redirect.onLoginWithConfigureTwoFactor.path)
               /\ Finished(k) => did = ConfigureSteps(k) /\ user \in User /\ user = k.fetched

\* C38 happens: a login whose response had no two_factor field ended on the
\* setup page, onLoginWithTwoFactor being another page
C38_Witness ==
    \E t \in DOMAIN tasks :
        /\ EnforcedLoginWithoutField(tasks[t]) /\ Finished(tasks[t])
        /\ cfg.redirect.onLoginWithTwoFactor \notin {False, Undefined}
        /\ cfg.redirect.onLoginWithTwoFactor # cfg.redirect.onLoginWithConfigureTwoFactor
        /\ NavigationTargets(tasks[t]) = <<cfg.redirect.onLoginWithConfigureTwoFactor.path>>
        /\ route.path = cfg.redirect.onLoginWithConfigureTwoFactor.path

====
